---- MODULE Spec2Model ----
(***************************************************************************)
(* Model of src/architectures.py: the latent-space distance metrics and    *)
(* the scorer modules (constructor + forward) built on them.               *)
(*                                                                         *)
(* A tensor is a record [err, dtype, shape, data]: data is the row-major   *)
(* flattening of the entries, shape the list of dimension sizes.  A failed *)
(* library call is a tensor whose err names the exception; every operator  *)
(* passes a failed argument through, as a raised exception would unwind    *)
(* the forward call.  Entries of dtype "int" are integers (the arithmetic  *)
(* of Linear/ReLU/Dropout is exact here); results that are not integers    *)
(* are kept as exact terms: a cosine is the pair num/sqrt(densq), a        *)
(* batch-normalised entry is (x - mean)/sqrt(var + eps).                   *)
(***************************************************************************)
EXTENDS Integers, Sequences, FiniteSets, TLC

VARIABLES module, training, rng, out, ref

vars == <<module, training, rng, out, ref>>

(***************************************************************************)
(* Bounds of the model.                                                    *)
(***************************************************************************)
MaxSeed == 1
MaxBatch == 2
MaxLatent == 2
MaxFill == 1
MaxSeqLen == 2
MaxLayers == 2
MaxTrainSteps == 1
MaxScale == 16
MaxEntry == 2

(***************************************************************************)
(* Integer and rational helpers.                                           *)
(***************************************************************************)
Abs(x) == IF x < 0 THEN -x ELSE x

Max(a, b) == IF a >= b THEN a ELSE b

RECURSIVE GCD(_, _)
GCD(a, b) == IF b = 0 THEN a ELSE GCD(b, a % b)

Rat(n, d) ==
    LET g == GCD(Abs(n), d)
    IN  [n |-> n \div g, d |-> d \div g]

RatAdd(p, q) == Rat(p.n * q.d + q.n * p.d, p.d * q.d)

RatScale(p, n, d) == Rat(p.n * n, p.d * d)

RECURSIVE SumSeq(_)
SumSeq(s) == IF s = <<>> THEN 0 ELSE Head(s) + SumSeq(Tail(s))

RECURSIVE Prod(_)
Prod(s) == IF s = <<>> THEN 1 ELSE Head(s) * Prod(Tail(s))

RECURSIVE Flatten(_)
Flatten(ss) == IF ss = <<>> THEN <<>> ELSE Head(ss) \o Flatten(Tail(ss))

(***************************************************************************)
(* Tensors.                                                                *)
(***************************************************************************)
Tensor(dtype, shape, data) ==
    [dtype |-> dtype, shape |-> shape, data |-> data, err |-> ""]

Fail(e) == [dtype |-> "none", shape |-> <<>>, data |-> <<>>, err |-> e]

Ok(t) == t.err = ""

\* Row i of a two-dimensional tensor.
Row(t, i) == SubSeq(t.data, (i - 1) * t.shape[2] + 1, i * t.shape[2])

Dot(a, b) == SumSeq([k \in 1..Len(a) |-> a[k] * b[k]])

\* A squared norm that is always 1: the dot product left undivided.
NormSq_Unnormalised(a) == 1

NormSq(a) == Dot(a, a)

DistSq(a, b) == SumSeq([k \in 1..Len(a) |-> (a[k] - b[k]) * (a[k] - b[k])])

\* Tensor.squeeze(): drops every dimension of size 1.
Squeeze(t) ==
    IF ~Ok(t) THEN t
    ELSE [t EXCEPT !.shape = SelectSeq(t.shape, LAMBDA d : d # 1)]

\* torch.cat([a, b], axis=1) of two-dimensional tensors.
Cat1(a, b) ==
    IF ~Ok(a) THEN a
    ELSE IF ~Ok(b) THEN b
    ELSE IF Len(a.shape) # 2 \/ Len(b.shape) # 2 \/ a.shape[1] # b.shape[1]
         THEN Fail("RuntimeError")
    ELSE Tensor(a.dtype, <<a.shape[1], a.shape[2] + b.shape[2]>>,
                Flatten([i \in 1..a.shape[1] |-> Row(a, i) \o Row(b, i)]))

(***************************************************************************)
(* Latent Space Distance Metrics                                           *)
(***************************************************************************)

\* nn.CosineSimilarity()(x1, x2): dim=1, eps=1e-8.  Entry i is the exact
\* value num / max(sqrt(densq), eps); integer rows have densq = 0 or
\* densq >= 1 > eps^2, so the clamp only acts on an all-zero row, where
\* num = 0 as well.
CosineSimilarity(x1, x2) ==
    IF ~Ok(x1) THEN x1
    ELSE IF ~Ok(x2) THEN x2
    ELSE IF x1.shape # x2.shape THEN Fail("RuntimeError")
    ELSE IF x1.dtype = "int" /\ x2.dtype = "int"
         THEN Tensor("cos", <<x1.shape[1]>>,
                [i \in 1..x1.shape[1] |->
                    [num   |-> Dot(Row(x1, i), Row(x2, i)),
                     densq |-> NormSq(Row(x1, i)) * NormSq(Row(x2, i))]])
    ELSE Tensor("term", <<x1.shape[1]>>,
                [i \in 1..x1.shape[1] |->
                    [x1 |-> Row(x1, i), x2 |-> Row(x2, i), fn |-> "cos"]])

\* t ** 2 on the result of a metric.
Square(t) ==
    IF ~Ok(t) THEN t
    ELSE IF t.dtype = "cos"
         THEN Tensor("cos2", t.shape,
                [i \in 1..Len(t.data) |->
                    [num |-> t.data[i].num * t.data[i].num,
                     den |-> t.data[i].densq]])
    ELSE IF t.dtype = "sqrt"
         THEN Tensor("int", t.shape, [i \in 1..Len(t.data) |-> t.data[i].sqrt])
    ELSE Tensor("term", t.shape,
                [i \in 1..Len(t.data) |-> [x1 |-> t.data[i], x2 |-> <<>>, fn |-> "sq"]])

\* torch.cdist(x1, x2, p=2.0): the full matrix of pairwise distances between
\* the rows of x1 and the rows of x2.
Cdist(x1, x2) ==
    IF ~Ok(x1) THEN x1
    ELSE IF ~Ok(x2) THEN x2
    ELSE IF x1.shape[2] # x2.shape[2] THEN Fail("RuntimeError")
    ELSE IF x1.dtype = "int" /\ x2.dtype = "int"
         THEN Tensor("sqrt", <<x1.shape[1], x2.shape[1]>>,
                Flatten([i \in 1..x1.shape[1] |->
                    [j \in 1..x2.shape[1] |->
                        [sqrt |-> DistSq(Row(x1, i), Row(x2, j))]]]))
    ELSE Tensor("term", <<x1.shape[1], x2.shape[1]>>,
                Flatten([i \in 1..x1.shape[1] |->
                    [j \in 1..x2.shape[1] |->
                        [x1 |-> Row(x1, i), x2 |-> Row(x2, j), fn |-> "dist"]]]))

Cosine(x1, x2) == CosineSimilarity(x1, x2)

SquaredCosine(x1, x2) == Square(CosineSimilarity(x1, x2))

Euclidean(x1, x2) == Cdist(x1, x2)

SquaredEuclidean(x1, x2) == Square(Cdist(x1, x2))

DISTANCE_METRICS == {"Cosine", "SquaredCosine", "Euclidean", "SquaredEuclidean"}

\* A lookup that accepts every name.
MetricKnown_NoLookup(distance_metric) == TRUE

\* DISTANCE_METRICS[distance_metric] finds the key; otherwise it raises
\* KeyError.
MetricKnown(distance_metric) == distance_metric \in DISTANCE_METRICS

\* self.activator(x1, x2) for the metric looked up at construction.
Activator(metric, x1, x2) ==
    CASE metric = "Cosine" -> Cosine(x1, x2)
      [] metric = "SquaredCosine" -> SquaredCosine(x1, x2)
      [] metric = "Euclidean" -> Euclidean(x1, x2)
      [] metric = "SquaredEuclidean" -> SquaredEuclidean(x1, x2)

(***************************************************************************)
(* The global random generator (torch's default generator): a state and a  *)
(* step.  Parameter initialisation and Dropout draw from it in order.      *)
(***************************************************************************)
RngModulus == 16

RngNext(s) == (5 * s + 3) % RngModulus

RECURSIVE RngStep(_, _)
RngStep(s, n) == IF n = 0 THEN s ELSE RngStep(RngNext(s), n - 1)

\* The generator state n draws after s.  The step has full period
\* RngModulus, so n draws are n % RngModulus steps.
RngSkip(s, n) == RngStep(s, n % RngModulus)

\* The n successive generator states from s on.
Draws(s, n) == [k \in 1..n |-> RngSkip(s, k - 1)]

\* An initial parameter value drawn at generator state s.
WeightOf(s) == (s % 5) - 2

\* A Bernoulli(1 - p) keep bit for p = 0.5 drawn at generator state s.
KeepBit(s) == (s \div 8) % 2

(***************************************************************************)
(* Layers.                                                                 *)
(***************************************************************************)

\* nn.Linear(in_features, out_features): weight and bias are drawn from the
\* generator at construction; returns the layer and the generator after it.
NewLinear(s, in_features, out_features) ==
    LET d == Draws(s, out_features * (in_features + 1))
    IN  [rng |-> RngSkip(s, out_features * (in_features + 1)),
         layer |->
            [in_features  |-> in_features,
             out_features |-> out_features,
             weight |-> [r \in 1..out_features |->
                           [c \in 1..in_features |->
                               WeightOf(d[(r - 1) * in_features + c])]],
             bias   |-> [r \in 1..out_features |->
                           WeightOf(d[out_features * in_features + r])]]]

\* Linear.forward on a [B, in_features] tensor: x W^T + b, after the
\* library's check of the last dimension against in_features.
Linear(lin, x) ==
    IF ~Ok(x) THEN x
    ELSE IF x.shape[Len(x.shape)] # lin.in_features THEN Fail("RuntimeError")
    ELSE Tensor("int", <<x.shape[1], lin.out_features>>,
                Flatten([i \in 1..x.shape[1] |->
                    [r \in 1..lin.out_features |->
                        Dot(Row(x, i), lin.weight[r]) + lin.bias[r]]]))

\* An activation that keeps the sign.
ReLU_Identity(x) == x

ReLU(x) ==
    IF ~Ok(x) THEN x
    ELSE [x EXCEPT !.data = [i \in 1..Len(x.data) |-> Max(0, x.data[i])]]

\* latent_activation() / activation(): the constructor argument, nn.ReLU by
\* default; nn.Identity stands for a sign-preserving alternative.
Activation(act, x) == IF act = "ReLU" THEN ReLU(x) ELSE x

\* nn.Sigmoid in the float32 arithmetic of the default dtype, computed as
\* 1 / (1 + exp(-x)): 1 + exp(-x) rounds to 1 from SigmoidOneFrom on, and
\* exp(-x) overflows to inf up to SigmoidZeroUpTo.  In between the result is
\* a float strictly inside (0, 1), kept as the term sigmoid(logit).
SigmoidOneFrom == 17

SigmoidZeroUpTo == -89

SigmoidOf(v) ==
    IF v >= SigmoidOneFrom THEN [kind |-> "one", logit |-> 0]
    ELSE IF v <= SigmoidZeroUpTo THEN [kind |-> "zero", logit |-> 0]
    ELSE [kind |-> "inside", logit |-> v]

\* A last layer that returns the logits as they are.
Sigmoid_Absent(x) == x

Sigmoid(x) ==
    IF ~Ok(x) THEN x
    ELSE Tensor("sigmoid", x.shape, [i \in 1..Len(x.data) |-> SigmoidOf(x.data[i])])

\* A Dropout that draws its mask in evaluation mode as well.
Dropout_InEveryMode(x, train, s) ==
    IF ~Ok(x) THEN [rng |-> s, t |-> x]
    ELSE LET d == Draws(s, Len(x.data))
         IN  [rng |-> RngSkip(s, Len(x.data)),
              t   |-> [x EXCEPT !.data =
                          [i \in 1..Len(x.data) |-> 2 * KeepBit(d[i]) * x.data[i]]]]

\* torch.nn.Dropout(p=0.5, inplace=False): in training mode every entry is
\* kept with probability 1 - p and scaled by 1 / (1 - p) = 2, one draw per
\* entry; in evaluation mode it is the identity and draws nothing.
Dropout(x, train, s) ==
    IF ~Ok(x) \/ ~train THEN [rng |-> s, t |-> x]
    ELSE LET d == Draws(s, Len(x.data))
         IN  [rng |-> RngSkip(s, Len(x.data)),
              t   |-> [x EXCEPT !.data =
                          [i \in 1..Len(x.data) |-> 2 * KeepBit(d[i]) * x.data[i]]]]

\* nn.BatchNorm1d(num_features): affine weight 1 and bias 0, the buffers
\* running_mean = 0, running_var = 1, num_batches_tracked = 0 (eps = 1e-5,
\* momentum = 0.1).  Statistics are exact rationals.
NewBatchNorm1d(num_features) ==
    [num_features        |-> num_features,
     running_mean        |-> [k \in 1..num_features |-> Rat(0, 1)],
     running_var         |-> [k \in 1..num_features |-> Rat(1, 1)],
     num_batches_tracked |-> 0]

\* BatchNorm1d in evaluation mode: the running statistics normalise the
\* input and nothing is written.
BatchNormEval(bn, x) ==
    [t |-> Tensor("norm", x.shape,
                [n \in 1..Len(x.data) |->
                    LET k == ((n - 1) % x.shape[2]) + 1
                    IN  [x    |-> x.data[n],
                         mean |-> bn.running_mean[k],
                         var  |-> bn.running_var[k]]]),
     bn |-> bn]

\* BatchNorm1d in training mode: the batch statistics normalise the input
\* and are folded into the running statistics.
BatchNormTrain(bn, x) ==
    LET B    == x.shape[1]
        C    == x.shape[2]
        bn1  == [bn EXCEPT !.num_batches_tracked = @ + 1]
        S(k) == SumSeq([i \in 1..B |-> x.data[(i - 1) * C + k]])
        Q(k) == SumSeq([i \in 1..B |-> x.data[(i - 1) * C + k] * x.data[(i - 1) * C + k]])
        mean == [k \in 1..C |-> Rat(S(k), B)]
        var  == [k \in 1..C |-> Rat(B * Q(k) - S(k) * S(k), B * B)]
    IN  IF B = 1 THEN [t |-> Fail("ValueError"), bn |-> bn1]
        ELSE [t |-> Tensor("norm", x.shape,
                       [n \in 1..Len(x.data) |->
                           LET k == ((n - 1) % C) + 1
                           IN  [x |-> x.data[n], mean |-> mean[k], var |-> var[k]]]),
              bn |-> [bn1 EXCEPT
                       !.running_mean = [k \in 1..C |->
                           RatAdd(RatScale(bn.running_mean[k], 9, 10),
                                  RatScale(mean[k], 1, 10))],
                       !.running_var = [k \in 1..C |->
                           RatAdd(RatScale(bn.running_var[k], 9, 10),
                                  RatScale(var[k], B, 10 * (B - 1)))]]]

\* A BatchNorm1d that uses and records the batch statistics in evaluation
\* mode as well.
BatchNorm1d_InEveryMode(bn, x, train) ==
    IF ~Ok(x) THEN [t |-> x, bn |-> bn]
    ELSE BatchNormTrain(bn, x)

\* BatchNorm1d.forward on a [B, C] tensor; returns the result and the layer's
\* buffers after the call.  In training mode num_batches_tracked is
\* incremented first, then a batch of one value per channel is rejected,
\* then the batch statistics normalise the input and are folded into the
\* running statistics (the variance unbiased).  In evaluation mode the
\* running statistics normalise the input and nothing is written.
BatchNorm1d(bn, x, train) ==
    IF ~Ok(x) THEN [t |-> x, bn |-> bn]
    ELSE IF train THEN BatchNormTrain(bn, x)
    ELSE BatchNormEval(bn, x)

\* nn.LSTM(input_size, hidden_size, num_layers, batch_first=True,
\* bidirectional=True).  The gate arithmetic is not modelled: each of the
\* 2 * num_layers layer/direction slots has one parameter drawn at
\* construction, and the final hidden state of a slot for a sample is a
\* fixed function, with values in -1..1, of that slot's parameter and that
\* sample's sequence alone.
NewLSTM(s, input_size, hidden_size, num_layers) ==
    [rng |-> RngSkip(s, 2 * num_layers),
     layer |-> [weight      |-> [n \in 1..(2 * num_layers) |-> WeightOf(Draws(s, 2 * num_layers)[n])],
                input_size  |-> input_size,
                hidden_size |-> hidden_size,
                num_layers  |-> num_layers]]

\* The elements of sample i of a [B, T, F] tensor.
Sample(x, i) ==
    SubSeq(x.data, (i - 1) * x.shape[2] * x.shape[3] + 1, i * x.shape[2] * x.shape[3])

HiddenUnit(w, seq, k) ==
    ((w * SumSeq([n \in 1..Len(seq) |-> n * seq[n]]) + k) % 3) - 1

\* h_out of self.rnn(prot_emb): shape [2 * num_layers, B, hidden_size].
LSTMHidden(rnn, x) ==
    IF ~Ok(x) THEN x
    ELSE IF Len(x.shape) # 3 \/ x.shape[3] # rnn.input_size THEN Fail("RuntimeError")
    ELSE Tensor("int", <<2 * rnn.num_layers, x.shape[1], rnn.hidden_size>>,
                Flatten([n \in 1..(2 * rnn.num_layers) |->
                    Flatten([i \in 1..x.shape[1] |->
                        [k \in 1..rnn.hidden_size |->
                            HiddenUnit(rnn.weight[n], Sample(x, i), k)]])]))

\* Tensor.permute(1, 0, 2) of a three-dimensional tensor, in the element
\* order a following reshape reads it.
Permute102(t) ==
    IF ~Ok(t) THEN t
    ELSE IF Len(t.shape) # 3 THEN Fail("RuntimeError")
    ELSE LET S == t.shape[1]
             B == t.shape[2]
             D == t.shape[3]
         IN  [t EXCEPT !.shape = <<B, S, D>>,
                       !.data = [n \in 1..Len(t.data) |->
                           LET i == (n - 1) \div (S * D)
                               s == ((n - 1) % (S * D)) \div D
                               k == (n - 1) % D
                           IN  t.data[s * B * D + i * D + k + 1]]]

\* Tensor.reshape(rows, -1) and Tensor.view(-1, a, b): the same elements in
\* the same order under a new shape, when the element count divides.
Reshape2(t, rows) ==
    IF ~Ok(t) THEN t
    ELSE IF rows = 0 \/ Len(t.data) % rows # 0 THEN Fail("RuntimeError")
    ELSE [t EXCEPT !.shape = <<rows, Len(t.data) \div rows>>]

View3(t, a, b) ==
    IF ~Ok(t) THEN t
    ELSE IF a * b = 0 \/ Len(t.data) % (a * b) # 0 THEN Fail("RuntimeError")
    ELSE [t EXCEPT !.shape = <<Len(t.data) \div (a * b), a, b>>]

\* torch.bmm(a, b): a is [B, n, m], b is [B, m, p]; the result is [B, n, p].
Bmm(a, b) ==
    IF ~Ok(a) THEN a
    ELSE IF ~Ok(b) THEN b
    ELSE IF a.shape[1] # b.shape[1] \/ a.shape[3] # b.shape[2] THEN Fail("RuntimeError")
    ELSE LET B == a.shape[1]
             N == a.shape[2]
             M == a.shape[3]
             P == b.shape[3]
         IN  Tensor("int", <<B, N, P>>,
                [x \in 1..(B * N * P) |->
                    LET i == (x - 1) \div (N * P)
                        r == ((x - 1) % (N * P)) \div P
                        c == (x - 1) % P
                    IN  SumSeq([m \in 1..M |->
                            a.data[i * N * M + r * M + m] *
                            b.data[i * M * P + (m - 1) * P + c + 1]])])

(***************************************************************************)
(* Model Architectures                                                     *)
(*                                                                         *)
(* X_init(s, cfg) is X.__init__ run with the generator at s: it returns    *)
(* the exception raised ("" for none), the instance, and the generator     *)
(* after the parameters drawn up to the return or the raise.               *)
(* X_forward(m, train, s, mol_emb, prot_emb) is X.forward on instance m in *)
(* training mode train: its result, the instance and the generator after.  *)
(***************************************************************************)
NoModule == [cls |-> "none"]

Built(m, s) == [module |-> m, rng |-> s, err |-> ""]

Raised(e, s) == [module |-> NoModule, rng |-> s, err |-> e]

Result(t, m, s) == [module |-> m, rng |-> s, t |-> t]

SimpleCosine_init(s, cfg) ==
    LET mp == NewLinear(s, cfg.mol_emb_size, cfg.latent_size)
        pp == NewLinear(mp.rng, cfg.prot_emb_size, cfg.latent_size)
    IN  IF ~MetricKnown(cfg.distance_metric) THEN Raised("KeyError", pp.rng)
        ELSE Built([act            |-> cfg.latent_activation,
                    cls            |-> "SimpleCosine",
                    mol_emb_size   |-> cfg.mol_emb_size,
                    prot_emb_size  |-> cfg.prot_emb_size,
                    mol_projector  |-> mp.layer,
                    prot_projector |-> pp.layer,
                    dist_metric    |-> cfg.distance_metric], pp.rng)

SimpleCosine_forward(m, train, s, mol_emb, prot_emb) ==
    LET mol_proj  == Activation(m.act, Linear(m.mol_projector, mol_emb))
        prot_proj == Activation(m.act, Linear(m.prot_projector, prot_emb))
    IN  Result(IF ~Ok(mol_proj) THEN mol_proj
               ELSE IF ~Ok(prot_proj) THEN prot_proj
               ELSE Activator(m.dist_metric, mol_proj, prot_proj), m, s)

CosineBatchNorm_init(s, cfg) ==
    LET mp == NewLinear(s, cfg.mol_emb_size, cfg.latent_size)
        pp == NewLinear(mp.rng, cfg.prot_emb_size, cfg.latent_size)
    IN  IF ~MetricKnown(cfg.distance_metric) THEN Raised("KeyError", pp.rng)
        ELSE Built([act            |-> cfg.latent_activation,
                    cls            |-> "CosineBatchNorm",
                    mol_emb_size   |-> cfg.mol_emb_size,
                    latent_size    |-> cfg.latent_size,
                    prot_emb_size  |-> cfg.prot_emb_size,
                    mol_projector  |-> mp.layer,
                    prot_projector |-> pp.layer,
                    dist_metric    |-> cfg.distance_metric,
                    mol_norm       |-> NewBatchNorm1d(cfg.latent_size),
                    prot_norm      |-> NewBatchNorm1d(cfg.latent_size)], pp.rng)

\* mol_norm runs (and writes its buffers) before the protein side is
\* touched; an exception on the molecule side leaves prot_norm as it was.
CosineBatchNorm_forward(m, train, s, mol_emb, prot_emb) ==
    LET mn == BatchNorm1d(m.mol_norm,
                          Activation(m.act, Linear(m.mol_projector, mol_emb)), train)
        m1 == [m EXCEPT !.mol_norm = mn.bn]
        pn == BatchNorm1d(m.prot_norm,
                          Activation(m.act, Linear(m.prot_projector, prot_emb)), train)
        m2 == [m1 EXCEPT !.prot_norm = pn.bn]
    IN  IF ~Ok(mn.t) THEN Result(mn.t, m1, s)
        ELSE IF ~Ok(pn.t) THEN Result(pn.t, m2, s)
        ELSE Result(Activator(m.dist_metric, mn.t, pn.t), m2, s)

LSTMCosine_init(s, cfg) ==
    LET mp  == NewLinear(s, cfg.mol_emb_size, cfg.latent_size)
        rnn == NewLSTM(mp.rng, cfg.prot_emb_size, cfg.lstm_dim, cfg.lstm_layers)
        pp  == NewLinear(rnn.rng, 2 * cfg.lstm_layers * cfg.lstm_dim, cfg.latent_size)
    IN  Built([act            |-> cfg.latent_activation,
               rnn            |-> rnn.layer,
               cls            |-> "LSTMCosine",
               mol_emb_size   |-> cfg.mol_emb_size,
               prot_emb_size  |-> cfg.prot_emb_size,
               mol_projector  |-> mp.layer,
               prot_projector |-> pp.layer], pp.rng)

\* h_out.permute(1,0,2).reshape(outp.shape[0], -1); outp.shape[0] is the
\* batch size, the second dimension of h_out.
\* The reshape without the permute before it.
ProtHidden_NoPermute(h_out) == Reshape2(h_out, IF Ok(h_out) THEN h_out.shape[2] ELSE 0)

ProtHidden(h_out) == Reshape2(Permute102(h_out), IF Ok(h_out) THEN h_out.shape[2] ELSE 0)

LSTMCosine_forward(m, train, s, mol_emb, prot_emb) ==
    LET mol_proj    == Activation(m.act, Linear(m.mol_projector, mol_emb))
        h_out       == LSTMHidden(m.rnn, prot_emb)
        prot_hidden == ProtHidden(h_out)
        prot_proj   == ReLU(Linear(m.prot_projector, prot_hidden))
    IN  Result(IF ~Ok(mol_proj) THEN mol_proj
               ELSE IF ~Ok(prot_proj) THEN prot_proj
               ELSE CosineSimilarity(mol_proj, prot_proj), m, s)

DeepCosine_init(s, cfg) ==
    LET mp  == NewLinear(s, cfg.mol_emb_size, cfg.latent_size)
        pp1 == NewLinear(mp.rng, cfg.prot_emb_size, cfg.hidden_size)
        pp2 == NewLinear(pp1.rng, cfg.hidden_size, cfg.latent_size)
    IN  Built([act             |-> cfg.latent_activation,
               cls             |-> "DeepCosine",
               mol_emb_size    |-> cfg.mol_emb_size,
               prot_emb_size   |-> cfg.prot_emb_size,
               mol_projector   |-> mp.layer,
               prot_projector  |-> <<pp1.layer, pp2.layer>>], pp2.rng)

DeepCosine_forward(m, train, s, mol_emb, prot_emb) ==
    LET mol_proj  == Activation(m.act, Linear(m.mol_projector, mol_emb))
        d1        == Dropout(Linear(m.prot_projector[1], prot_emb), train, s)
        d2        == Dropout(Linear(m.prot_projector[2], Activation(m.act, d1.t)), train, d1.rng)
        prot_proj == Activation(m.act, d2.t)
    IN  IF ~Ok(mol_proj) THEN Result(mol_proj, m, s)
        ELSE IF ~Ok(prot_proj) THEN Result(prot_proj, m, d2.rng)
        ELSE Result(CosineSimilarity(mol_proj, prot_proj), m, d2.rng)

SimpleConcat_init(s, cfg) ==
    LET fc1 == NewLinear(s, cfg.mol_emb_size + cfg.prot_emb_size, cfg.hidden_dim_1)
        fc2 == NewLinear(fc1.rng, cfg.hidden_dim_1, cfg.hidden_dim_2)
        fc3 == NewLinear(fc2.rng, cfg.hidden_dim_2, 1)
    IN  Built([act           |-> cfg.latent_activation,
               cls           |-> "SimpleConcat",
               mol_emb_size  |-> cfg.mol_emb_size,
               prot_emb_size |-> cfg.prot_emb_size,
               fc1           |-> fc1.layer,
               fc2           |-> fc2.layer,
               fc3           |-> fc3.layer], fc3.rng)

SimpleConcat_forward(m, train, s, mol_emb, prot_emb) ==
    LET cat_emb == Cat1(mol_emb, prot_emb)
        h1      == Activation(m.act, Linear(m.fc1, cat_emb))
        h2      == Activation(m.act, Linear(m.fc2, h1))
    IN  Result(Squeeze(Sigmoid(Linear(m.fc3, h2))), m, s)

\* distance_metric is accepted (default None) and never read.
SeparateConcat_init(s, cfg) ==
    LET mp == NewLinear(s, cfg.mol_emb_size, cfg.latent_size)
        pp == NewLinear(mp.rng, cfg.prot_emb_size, cfg.latent_size)
        fc == NewLinear(pp.rng, 2 * cfg.latent_size, 1)
    IN  Built([act            |-> cfg.latent_activation,
               cls            |-> "SeparateConcat",
               mol_emb_size   |-> cfg.mol_emb_size,
               prot_emb_size  |-> cfg.prot_emb_size,
               mol_projector  |-> mp.layer,
               prot_projector |-> pp.layer,
               fc             |-> fc.layer], fc.rng)

SeparateConcat_forward(m, train, s, mol_emb, prot_emb) ==
    LET mol_proj  == Activation(m.act, Linear(m.mol_projector, mol_emb))
        prot_proj == Activation(m.act, Linear(m.prot_projector, prot_emb))
        cat_emb   == Cat1(mol_proj, prot_proj)
    IN  Result(Squeeze(Sigmoid(Linear(m.fc, cat_emb))), m, s)

AffinityEmbedConcat_init(s, cfg) ==
    LET mp == NewLinear(s, cfg.mol_emb_size, cfg.latent_size)
        pp == NewLinear(mp.rng, cfg.prot_emb_size, cfg.latent_size)
        fc == NewLinear(pp.rng, 2 * cfg.latent_size, 1)
    IN  Built([act            |-> cfg.latent_activation,
               cls            |-> "AffinityEmbedConcat",
               mol_emb_size   |-> cfg.mol_emb_size,
               latent_size    |-> cfg.latent_size,
               prot_emb_size  |-> cfg.prot_emb_size,
               mol_projector  |-> mp.layer,
               prot_projector |-> pp.layer,
               fc             |-> fc.layer], fc.rng)

AffinityEmbedConcat_forward(m, train, s, mol_emb, prot_emb) ==
    LET mol_proj  == Activation(m.act, Linear(m.mol_projector, mol_emb))
        prot_proj == Activation(m.act, Linear(m.prot_projector, prot_emb))
        cat_emb   == Cat1(mol_proj, prot_proj)
    IN  Result(Squeeze(Linear(m.fc, cat_emb)), m, s)

AffinityCoembedInner_init(s, cfg) ==
    LET mp == NewLinear(s, cfg.mol_emb_size, cfg.latent_size)
        pp == NewLinear(mp.rng, cfg.prot_emb_size, cfg.latent_size)
    IN  Built([act            |-> cfg.latent_activation,
               cls            |-> "AffinityCoembedInner",
               mol_emb_size   |-> cfg.mol_emb_size,
               latent_size    |-> cfg.latent_size,
               prot_emb_size  |-> cfg.prot_emb_size,
               mol_projector  |-> mp.layer,
               prot_projector |-> pp.layer], pp.rng)

\* torch.inner(mol_proj, prot_proj).squeeze(): the inner product of every
\* molecule row with every protein row.
BatchedInner_Inner(mol_proj, prot_proj, latent_size) ==
    IF ~Ok(mol_proj) THEN mol_proj
    ELSE IF ~Ok(prot_proj) THEN prot_proj
    ELSE Squeeze(Tensor("int", <<mol_proj.shape[1], prot_proj.shape[1]>>,
                    Flatten([i \in 1..mol_proj.shape[1] |->
                        [j \in 1..prot_proj.shape[1] |->
                            Dot(Row(mol_proj, i), Row(prot_proj, j))]])))

\* torch.bmm(mol_proj.view(-1,1,latent_size),
\*           prot_proj.view(-1,latent_size,1)).squeeze()
BatchedInner(mol_proj, prot_proj, latent_size) ==
    Squeeze(Bmm(View3(mol_proj, 1, latent_size), View3(prot_proj, latent_size, 1)))

AffinityCoembedInner_forward(m, train, s, mol_emb, prot_emb) ==
    LET mol_proj  == Activation(m.act, Linear(m.mol_projector, mol_emb))
        prot_proj == Activation(m.act, Linear(m.prot_projector, prot_emb))
    IN  Result(BatchedInner(mol_proj, prot_proj, m.latent_size), m, s)

AffinityConcatLinear_init(s, cfg) ==
    LET fc == NewLinear(s, cfg.mol_emb_size + cfg.prot_emb_size, 1)
    IN  Built([cls           |-> "AffinityConcatLinear",
               mol_emb_size  |-> cfg.mol_emb_size,
               prot_emb_size |-> cfg.prot_emb_size,
               fc            |-> fc.layer], fc.rng)

AffinityConcatLinear_forward(m, train, s, mol_emb, prot_emb) ==
    Result(Squeeze(Linear(m.fc, Cat1(mol_emb, prot_emb))), m, s)

Classes ==
    {"SimpleCosine", "CosineBatchNorm", "LSTMCosine", "DeepCosine", "SimpleConcat",
     "SeparateConcat", "AffinityEmbedConcat", "AffinityCoembedInner",
     "AffinityConcatLinear"}

\* cls(**cfg)
New(cls, s, cfg) ==
    CASE cls = "SimpleCosine" -> SimpleCosine_init(s, cfg)
      [] cls = "CosineBatchNorm" -> CosineBatchNorm_init(s, cfg)
      [] cls = "LSTMCosine" -> LSTMCosine_init(s, cfg)
      [] cls = "DeepCosine" -> DeepCosine_init(s, cfg)
      [] cls = "SimpleConcat" -> SimpleConcat_init(s, cfg)
      [] cls = "SeparateConcat" -> SeparateConcat_init(s, cfg)
      [] cls = "AffinityEmbedConcat" -> AffinityEmbedConcat_init(s, cfg)
      [] cls = "AffinityCoembedInner" -> AffinityCoembedInner_init(s, cfg)
      [] cls = "AffinityConcatLinear" -> AffinityConcatLinear_init(s, cfg)

\* m(mol_emb, prot_emb)
Call(m, train, s, mol_emb, prot_emb) ==
    CASE m.cls = "SimpleCosine" -> SimpleCosine_forward(m, train, s, mol_emb, prot_emb)
      [] m.cls = "CosineBatchNorm" -> CosineBatchNorm_forward(m, train, s, mol_emb, prot_emb)
      [] m.cls = "LSTMCosine" -> LSTMCosine_forward(m, train, s, mol_emb, prot_emb)
      [] m.cls = "DeepCosine" -> DeepCosine_forward(m, train, s, mol_emb, prot_emb)
      [] m.cls = "SimpleConcat" -> SimpleConcat_forward(m, train, s, mol_emb, prot_emb)
      [] m.cls = "SeparateConcat" -> SeparateConcat_forward(m, train, s, mol_emb, prot_emb)
      [] m.cls = "AffinityEmbedConcat" -> AffinityEmbedConcat_forward(m, train, s, mol_emb, prot_emb)
      [] m.cls = "AffinityCoembedInner" -> AffinityCoembedInner_forward(m, train, s, mol_emb, prot_emb)
      [] m.cls = "AffinityConcatLinear" -> AffinityConcatLinear_forward(m, train, s, mol_emb, prot_emb)

(***************************************************************************)
(* The program: one generator, one module instance, calls on it.           *)
(*   module    the instance (NoModule before a successful construction)    *)
(*   training  nn.Module.training of the instance                          *)
(*   rng       the state of the global generator                           *)
(*   out       the last constructor or forward call and its outcome        *)
(*   ref       the first forward call of the instance, kept for comparison *)
(***************************************************************************)
NoCall == [op |-> "none"]

Seeds == 0..MaxSeed

BatchSizes == 1..MaxBatch

MolEmbSizes == {2}

ProtEmbSizes == {2}

HiddenSizes == {2}

Activations == {"ReLU", "Identity"}

\* The four registered names, an unregistered one, and None.
MetricNames == DISTANCE_METRICS \cup {"Manhattan", "None"}

\* The constructor arguments tried, for the given activations and
\* distance_metric names.
ConfigsOf(acts, metrics) ==
    [distance_metric   : metrics,
     hidden_size       : HiddenSizes,
     mol_emb_size      : MolEmbSizes,
     latent_size       : 1..MaxLatent,
     prot_emb_size     : ProtEmbSizes,
     latent_activation : acts,
     lstm_dim          : 1..MaxLatent,
     lstm_layers       : 1..MaxLayers,
     hidden_dim_1      : HiddenSizes,
     hidden_dim_2      : HiddenSizes]

\* Input batches: entries cycle through -scale, 0, scale from an offset.
Entry(n, fill, scale) == scale * (((n + fill) % 3) - 1)

Batch(B, width, fill, scale) ==
    Tensor("int", <<B, width>>, [n \in 1..(B * width) |-> Entry(n, fill, scale)])

SeqBatch(B, T, width, fill, scale) ==
    Tensor("int", <<B, T, width>>, [n \in 1..(B * T * width) |-> Entry(n, fill, scale)])

Init ==
    /\ module = NoModule
    /\ training = TRUE
    /\ rng \in Seeds
    /\ out = NoCall
    /\ ref = NoCall

\* module = cls(**cfg): a new instance is in training mode.
Construct(cls, cfg) ==
    /\ module = NoModule
    /\ out = NoCall
    /\ \E r \in {New(cls, rng, cfg)} :
           /\ module' = r.module
           /\ rng' = r.rng
           /\ out' = [err |-> r.err, distance_metric |-> cfg.distance_metric,
                      cls |-> cls, op |-> "init"]
    /\ training' = TRUE
    /\ UNCHANGED ref

\* module(mol_emb, prot_emb) on a molecule batch of width mol_emb_size + dm
\* and a protein batch (for LSTMCosine, a batch of length-T sequences) of
\* width prot_emb_size + dp.
Forward(B, dm, dp, T, fill, scale) ==
    /\ module # NoModule
    /\ (module.cls = "CosineBatchNorm" /\ training)
          => module.mol_norm.num_batches_tracked < MaxTrainSteps
    /\ LET mol_emb  == Batch(B, module.mol_emb_size + dm, fill, scale)
           prot_emb == IF module.cls = "LSTMCosine"
                       THEN SeqBatch(B, T, module.prot_emb_size + dp, fill, scale)
                       ELSE Batch(B, module.prot_emb_size + dp, fill, scale)
       IN  \E r \in {Call(module, training, rng, mol_emb, prot_emb)} :
           /\ module' = r.module
           /\ rng' = r.rng
           /\ out' = [t |-> r.t, train |-> training, op |-> "forward",
                      mol |-> mol_emb, prot |-> prot_emb, pre |-> module]
    /\ UNCHANGED training

\* module.train()
Train ==
    /\ module # NoModule
    /\ ~training
    /\ training' = TRUE
    /\ UNCHANGED <<module, rng, out, ref>>

\* module.eval()
Eval ==
    /\ module # NoModule
    /\ training
    /\ training' = FALSE
    /\ UNCHANGED <<module, rng, out, ref>>

(***************************************************************************)
(* Spec: every class with the default activation and every                 *)
(* distance_metric name, called on batches of the declared widths and of   *)
(* widths off by one on either side.                                       *)
(***************************************************************************)
ConstructAny ==
    \E cls \in Classes, cfg \in ConfigsOf({"ReLU"}, MetricNames) : Construct(cls, cfg)

ForwardAny ==
    \E B \in BatchSizes, dm \in {0, 1}, dp \in {0, -1}, T \in 1..MaxSeqLen :
        /\ (module # NoModule /\ module.cls # "LSTMCosine") => T = 1
        /\ Forward(B, dm, dp, T, 0, 1)
        /\ UNCHANGED ref

Next ==
    \/ ConstructAny
    \/ ForwardAny
    \/ Train
    \/ Eval

Spec == Init /\ [][Next]_vars

(***************************************************************************)
(* SpecValues: every class with either activation and a registered metric, *)
(* called on batches of the declared widths with entries of small and of   *)
(* large magnitude.                                                        *)
(***************************************************************************)
Scales == {1, MaxScale}

ConstructValid ==
    \E cls \in Classes, cfg \in ConfigsOf(Activations, DISTANCE_METRICS) : Construct(cls, cfg)

ForwardScaled ==
    \E B \in BatchSizes, T \in 1..MaxSeqLen, fill \in 0..MaxFill, scale \in Scales :
        /\ (module # NoModule /\ module.cls # "LSTMCosine") => T = 1
        /\ Forward(B, 0, 0, T, fill, scale)
        /\ UNCHANGED ref

NextValues ==
    \/ ConstructValid
    \/ ForwardScaled
    \/ Train
    \/ Eval

SpecValues == Init /\ [][NextValues]_vars

(***************************************************************************)
(* SpecRepeat: every class with its default arguments, called repeatedly   *)
(* on batches of the declared widths; ref keeps the first forward call of  *)
(* the instance and whether a later call repeated it (the same input       *)
(* batches in the same mode).                                              *)
(***************************************************************************)
Repeats(o, r) == o.mol = r.mol /\ o.prot = r.prot /\ o.train = r.train

ConstructDefault ==
    \E cls \in Classes, cfg \in ConfigsOf({"ReLU"}, {"Cosine"}) : Construct(cls, cfg)

ForwardTracked ==
    \E B \in BatchSizes, T \in 1..MaxSeqLen, fill \in 0..MaxFill :
        /\ (module # NoModule /\ module.cls # "LSTMCosine") => T = 1
        /\ Forward(B, 0, 0, T, fill, 1)
        /\ ref' = IF ref = NoCall THEN [op |-> "forward", call |-> out', again |-> FALSE]
                  ELSE IF Repeats(out', ref.call) THEN [ref EXCEPT !.again = TRUE]
                  ELSE ref

NextRepeat ==
    \/ ConstructDefault
    \/ ForwardTracked
    \/ Train
    \/ Eval

SpecRepeat == Init /\ [][NextRepeat]_vars

(***************************************************************************)
(* SpecMetric: the distance metrics applied directly, the two cosine       *)
(* metrics to every pair of single rows with entries in                    *)
(* -MaxEntry..MaxEntry and all four to batches of several rows; and the    *)
(* documented example, a 4-sample batch through SimpleCosine.              *)
(***************************************************************************)
ExampleBatch == 4

Rows(D) == [1..D -> (-MaxEntry)..MaxEntry]

\* No module constructed and no call made yet.
Fresh == module = NoModule /\ out = NoCall

\* metric()(x1, x2)
Metric(metric, x1, x2) ==
    /\ Fresh
    /\ out' = [t |-> Activator(metric, x1, x2), x1 |-> x1, x2 |-> x2, metric |-> metric,
               op |-> "metric"]
    /\ UNCHANGED <<module, training, rng, ref>>

MetricOnRows ==
    /\ Fresh
    /\ \E metric \in {"Cosine", "SquaredCosine"}, D \in 1..MaxLatent :
          \E a \in Rows(D), b \in Rows(D) :
              Metric(metric, Tensor("int", <<1, D>>, a), Tensor("int", <<1, D>>, b))

MetricOnBatches ==
    /\ Fresh
    /\ \E metric \in DISTANCE_METRICS, D \in 1..MaxLatent, B \in BatchSizes \cup {ExampleBatch} :
          \E f1 \in 0..2, f2 \in 0..2, scale \in 1..MaxEntry :
              Metric(metric, Batch(B, D, f1, 1), Batch(B, D, f2, scale))

ConstructSimpleCosine ==
    \E cfg \in ConfigsOf(Activations, DISTANCE_METRICS) : Construct("SimpleCosine", cfg)

ForwardExample ==
    \E fill \in 0..MaxFill :
        /\ module # NoModule
        /\ Forward(ExampleBatch, 0, 0, 1, fill, 1)
        /\ UNCHANGED ref

NextMetric ==
    \/ MetricOnRows
    \/ MetricOnBatches
    \/ ConstructSimpleCosine
    \/ ForwardExample

SpecMetric == Init /\ [][NextMetric]_vars

(***************************************************************************)
(* Properties of the calls.                                                *)
(***************************************************************************)
IsForward == out.op = "forward"

\* The batch size and the embedding widths of the last forward call.
BatchOf(o) == o.mol.shape[1]

MolWidth(o) == o.mol.shape[Len(o.mol.shape)]

ProtWidth(o) == o.prot.shape[Len(o.prot.shape)]

WidthsMatch(o) ==
    /\ MolWidth(o) = o.pre.mol_emb_size
    /\ ProtWidth(o) = o.pre.prot_emb_size

\* The latent vectors of the two-tower modules whose towers are one dense
\* layer and the activation.
MolProj(o) == Activation(o.pre.act, Linear(o.pre.mol_projector, o.mol))

ProtProj(o) == Activation(o.pre.act, Linear(o.pre.prot_projector, o.prot))

\* C1: every forward call on a batch of B >= 1 samples of the declared widths
\* returns a one-dimensional result of length B (one score per sample).
C1_OneScorePerSample ==
    (IsForward /\ WidthsMatch(out))
        => (Ok(out.t) /\ out.t.shape = <<BatchOf(out)>>)

\* C2: constructing SimpleCosine, CosineBatchNorm or SeparateConcat with a
\* distance_metric outside DISTANCE_METRICS raises KeyError in the
\* constructor and produces no instance.
C2_UnknownMetricFails ==
    (/\ out.op = "init"
     /\ out.cls \in {"SimpleCosine", "CosineBatchNorm", "SeparateConcat"}
     /\ out.distance_metric \notin DISTANCE_METRICS)
        => (out.err = "KeyError" /\ module = NoModule)

\* C2 (amended): SimpleCosine and CosineBatchNorm raise KeyError in the
\* constructor for a name outside DISTANCE_METRICS and no instance exists
\* afterwards (so no forward call can run); SeparateConcat never reads its
\* distance_metric argument and constructs an instance for every name.
C2_UnknownMetricFailsWhereRead ==
    /\ (/\ out.op = "init"
        /\ out.cls \in {"SimpleCosine", "CosineBatchNorm"}
        /\ out.distance_metric \notin DISTANCE_METRICS)
           => (out.err = "KeyError" /\ module = NoModule)
    /\ (/\ out.op = "init"
        /\ out.cls = "SeparateConcat")
           => (out.err = "" /\ module # NoModule /\ module.cls = "SeparateConcat")
    /\ (IsForward /\ out.pre.cls \in {"SimpleCosine", "CosineBatchNorm"})
           => out.pre.dist_metric \in DISTANCE_METRICS

C2_Witness ==
    /\ out.op = "init"
    /\ out.cls = "CosineBatchNorm"
    /\ out.distance_metric = "Manhattan"
    /\ out.err = "KeyError"
    /\ module = NoModule

\* C4: a forward call leaves the instance (configuration, weights and
\* buffers) exactly as it was before the call.
C4_ForwardLeavesInstanceUnchanged ==
    IsForward => module = out.pre

\* C4 (amended): a forward call leaves the instance exactly as it was, except
\* a CosineBatchNorm in training mode, where it writes the buffers of
\* mol_norm and prot_norm and nothing else: when the molecule projection
\* succeeds, mol_norm.num_batches_tracked grows by one, and a batch of two
\* or more samples is folded into the running statistics.
C4_ForwardWritesOnlyTrainingBuffers ==
    IsForward =>
        IF out.pre.cls = "CosineBatchNorm" /\ out.train
        THEN /\ module = [out.pre EXCEPT !.mol_norm = module.mol_norm,
                                         !.prot_norm = module.prot_norm]
             /\ module.mol_norm.num_features = out.pre.mol_norm.num_features
             /\ module.mol_norm.num_batches_tracked =
                  out.pre.mol_norm.num_batches_tracked
                    + (IF MolWidth(out) = out.pre.mol_emb_size THEN 1 ELSE 0)
             /\ (BatchOf(out) = 1 \/ MolWidth(out) # out.pre.mol_emb_size)
                  => /\ module.mol_norm.running_mean = out.pre.mol_norm.running_mean
                     /\ module.mol_norm.running_var = out.pre.mol_norm.running_var
                     /\ module.prot_norm = out.pre.prot_norm
        ELSE module = out.pre

C4_Witness ==
    /\ IsForward
    /\ out.pre.cls = "CosineBatchNorm"
    /\ out.train
    /\ Ok(out.t)
    /\ module.mol_norm.running_mean # out.pre.mol_norm.running_mean
    /\ module.prot_norm.num_batches_tracked = 1

\* C5: a forward call whose molecule width differs from mol_emb_size or
\* whose protein width differs from prot_emb_size raises and returns no
\* score, for every module.
C5_WidthMismatchFails ==
    (IsForward /\ ~WidthsMatch(out)) => ~Ok(out.t)

\* The pre-sigmoid logits of the last forward call of a sigmoid-terminated
\* module, one per sample.
Logits(o) ==
    IF o.pre.cls = "SimpleConcat"
    THEN Linear(o.pre.fc3,
                Activation(o.pre.act, Linear(o.pre.fc2,
                    Activation(o.pre.act, Linear(o.pre.fc1, Cat1(o.mol, o.prot))))))
    ELSE Linear(o.pre.fc, Cat1(MolProj(o), ProtProj(o)))

SigmoidTerminated == {"SimpleConcat", "SeparateConcat"}

\* C7: every score returned by SimpleConcat or SeparateConcat is strictly
\* greater than 0 and strictly less than 1.
C7_ScoresStrictlyInsideUnitInterval ==
    (IsForward /\ out.pre.cls \in SigmoidTerminated /\ Ok(out.t))
        => /\ out.t.dtype = "sigmoid"
           /\ \A i \in 1..Len(out.t.data) : out.t.data[i].kind = "inside"

\* C7 (amended): every score returned by SimpleConcat or SeparateConcat lies
\* in the closed interval [0, 1]: it is the float32 sigmoid of the sample's
\* logit, which is exactly 1 for a logit of SigmoidOneFrom or more, exactly 0
\* for a logit of SigmoidZeroUpTo or less, and strictly inside (0, 1) only
\* for the logits in between.
C7_ScoresInsideClosedUnitInterval ==
    (IsForward /\ out.pre.cls \in SigmoidTerminated /\ Ok(out.t))
        => /\ out.t.dtype = "sigmoid"
           /\ Len(out.t.data) = BatchOf(out)
           /\ \A i \in 1..Len(out.t.data) :
                LET v == Logits(out).data[i]
                    e == out.t.data[i]
                IN  \/ e.kind = "one" /\ v >= SigmoidOneFrom
                    \/ e.kind = "zero" /\ v <= SigmoidZeroUpTo
                    \/ /\ e.kind = "inside"
                       /\ e.logit = v
                       /\ v > SigmoidZeroUpTo
                       /\ v < SigmoidOneFrom

C7_Witness ==
    /\ IsForward
    /\ out.pre.cls \in SigmoidTerminated
    /\ Ok(out.t)
    /\ \E i \in 1..Len(out.t.data) : out.t.data[i].kind = "one"
    /\ \E i \in 1..Len(out.t.data) : out.t.data[i].kind = "inside"

\* A score that is exactly 0 is reached as well.
C7_SaturatesAtZero ==
    /\ IsForward
    /\ out.pre.cls \in SigmoidTerminated
    /\ Ok(out.t)
    /\ \E i \in 1..Len(out.t.data) : out.t.data[i].kind = "zero"

\* C8: AffinityCoembedInner.forward returns one score per sample, and the
\* score of sample i is the inner product of sample i's own two latent
\* vectors, sum over k of mol_proj[i,k] * prot_proj[i,k].
C8_ScoreIsOwnInnerProduct ==
    (IsForward /\ out.pre.cls = "AffinityCoembedInner" /\ Ok(out.t))
        => /\ Len(out.t.data) = BatchOf(out)
           /\ \A i \in 1..BatchOf(out) :
                out.t.data[i] = Dot(Row(MolProj(out), i), Row(ProtProj(out), i))

C8_Witness ==
    /\ IsForward
    /\ out.pre.cls = "AffinityCoembedInner"
    /\ Ok(out.t)
    /\ BatchOf(out) >= 2
    /\ out.pre.latent_size >= 2
    /\ out.t.data[1] # out.t.data[2]
    /\ out.t.data[1] # Dot(Row(MolProj(out), 1), Row(ProtProj(out), 2))

\* The h_out of the last LSTMCosine forward call, and the same tensor with
\* every element replaced by its own position (slot, sample, unit) in h_out.
HOut(o) == LSTMHidden(o.pre.rnn, o.prot)

Positions(t) == [t EXCEPT !.data = [n \in 1..Len(t.data) |-> n]]

\* C9: in LSTMCosine.forward the reshaped hidden tensor has shape
\* B x (2*L*D), the input width of prot_projector, and element
\* (i, (s-1)*D + k) of it is element (s, i, k) of h_out: row i is the
\* concatenation over the 2*L slots of the final hidden state of sample i,
\* and holds no element of another sample.
C9_RowIsOwnHiddenStates ==
    (IsForward /\ out.pre.cls = "LSTMCosine" /\ Ok(HOut(out)))
        => LET h  == HOut(out)
               S  == h.shape[1]
               B  == h.shape[2]
               D  == h.shape[3]
               ph == ProtHidden(h)
               pp == ProtHidden(Positions(h))
           IN  /\ B = BatchOf(out)
               /\ S = 2 * out.pre.rnn.num_layers
               /\ D = out.pre.rnn.hidden_size
               /\ Ok(ph)
               /\ ph.shape = <<B, S * D>>
               /\ S * D = out.pre.prot_projector.in_features
               /\ \A i \in 1..B, s \in 1..S, k \in 1..D :
                    /\ pp.data[(i - 1) * S * D + (s - 1) * D + k]
                         = (s - 1) * B * D + (i - 1) * D + k
                    /\ ph.data[(i - 1) * S * D + (s - 1) * D + k]
                         = h.data[(s - 1) * B * D + (i - 1) * D + k]

C9_Witness ==
    /\ IsForward
    /\ out.pre.cls = "LSTMCosine"
    /\ Ok(out.t)
    /\ BatchOf(out) >= 2
    /\ out.pre.rnn.num_layers >= 2
    /\ out.pre.rnn.hidden_size >= 2
    /\ Row(ProtHidden(HOut(out)), 1) # Row(ProtHidden(HOut(out)), 2)

CosineInRange(e) ==
    /\ e.num * e.num <= e.densq
    /\ e.densq = 0 => e.num = 0

\* The value num / max(den, eps^2) of a squared cosine lies in [0, 1].
SquaredCosineInRange(e) ==
    /\ 0 <= e.num
    /\ e.num <= e.den
    /\ e.den = 0 => e.num = 0

C6_ExampleWitness ==
    /\ IsForward
    /\ out.pre.cls = "SimpleCosine"
    /\ out.pre.dist_metric = "Cosine"
    /\ BatchOf(out) = ExampleBatch
    /\ \E i \in 1..Len(out.t.data) : out.t.data[i].num # 0

====
